---- MODULE Spec2Model ----
(***************************************************************************)
(* Model of the GeoMet catalog scripts: the three paginated collectors     *)
(* (geomet_export.fetch_all, geomet_fetch.fetch_all_pages and the          *)
(* single-page path of geomet_fetch.main, geomet_visualize.fetch_all) and  *)
(* what each script's main does with the collected features.               *)
(***************************************************************************)
EXTENDS Integers, Sequences, FiniteSets, TLC

\* ------------------------------------------------------------- bounds
\* Largest small --limit / --max-items value drawn for a run.
MaxLimit == 2
MaxCap == 3
\* Largest number of features the server puts in one page (it may exceed
\* the requested limit).
MaxPage == 2
\* Page requests explored per run.
MaxReq == 3
\* The cap of the three-page end-to-end scenario.
ScenarioCap == 10

\* ------------------------------------------------- program constants
\* min(args.limit or 100, 500)
PageSizeMax == 500
DefaultPageSize == 100
\* geomet_export: max_items = ... (args.limit or 10)
ExportDefaultCap == 10
\* fetch_json: sys.exit(1) on HTTPError and URLError
ErrorExitStatus == 1

\* ------------------------------------------------------------ helpers
Min(a, b) == IF a < b THEN a ELSE b

\* Python's `x or d` on an int: 0 is falsy.
Or(x, d) == IF x = 0 THEN d ELSE x

\* Python's seq[:n] (n < 0 counts from the end).
SliceMutantNone(s, n) == s
Slice(s, n) ==
    IF n >= 0 THEN SubSeq(s, 1, Min(n, Len(s)))
    ELSE SubSeq(s, 1, IF Len(s) + n > 0 THEN Len(s) + n ELSE 0)

\* Feature records, as the server delivers them.
Records == {"a", "b"}

\* A run of n records: a and b in alternation, starting with `first`.
Run(first, n) ==
    [i \in 1..n |-> IF i % 2 = 1 THEN first ELSE CHOOSE r \in Records : r # first]

\* The "features" arrays a response may carry: empty, or a run of up to
\* MaxPage records (the same record may come back on a later page, and the
\* page may be longer than the limit asked for).
Pages == {<<>>} \cup {Run(first, n) : first \in Records, n \in 1..MaxPage}

\* A KEY=VALUE token is a sequence of characters.
GoodToken == <<"K", "=", "v">>
BadToken == <<"K", "v">>
PropertyLists == {<<>>, <<GoodToken>>, <<GoodToken, BadToken>>}

\* prop.split("=", 1): the parts of the token.
split(tok) ==
    IF \E i \in 1..Len(tok) : tok[i] = "="
    THEN LET i == CHOOSE j \in 1..Len(tok) :
                    tok[j] = "=" /\ \A k \in 1..(j - 1) : tok[k] # "="
         IN  <<SubSeq(tok, 1, i - 1), SubSeq(tok, i + 1, Len(tok))>>
    ELSE <<tok>>

\* `key, value = prop.split("=", 1)` raises ValueError unless there are two parts.
PropertiesRaise(properties) ==
    \E i \in 1..Len(properties) : Len(split(properties[i])) # 2

\* ---------------------------------------------------------- arguments
Limits == (-1..MaxLimit) \cup {PageSizeMax + 1}
Caps == (-1..MaxCap) \cup {ScenarioCap}
Offsets == {0, 1}
PlotTypes == {"timeseries", "bar", "scatter", "map"}

\* argparse namespaces of the three scripts (fields a script does not have
\* are fixed).
ExportArgs ==
    [limit: Limits, offset: {0}, all_pages: BOOLEAN, max_items: Caps,
     properties: PropertyLists, plot_type: {"none"}, x_field: {FALSE},
     y_field: {FALSE}]
FetchArgs ==
    [limit: Limits, offset: Offsets, all_pages: BOOLEAN, max_items: Caps,
     properties: PropertyLists, plot_type: {"none"}, x_field: {FALSE},
     y_field: {FALSE}]
VisualizeArgs ==
    [limit: Limits, offset: {0}, all_pages: {FALSE}, max_items: {0},
     properties: PropertyLists, plot_type: PlotTypes, x_field: BOOLEAN,
     y_field: BOOLEAN]

\* -------------------------------------------------------------- state
VARIABLES
    prog,            \* which script runs: "export", "fetch", "visualize"
    args,            \* the argparse namespace (geomet_fetch mutates it)
    entry,           \* the namespace as the caller supplied it
    pc,              \* position of the run
    all_features,    \* the collector's list
    limit_per_page,  \* collector local
    offset,          \* collector local
    max_items,       \* collector local / parameter
    reqs,            \* page requests issued, in order
    resps,           \* responses received, in order
    received,        \* concatenation of the features of all responses
    sleeps,          \* time.sleep calls since the last request
    features,        \* what main gets back from the collector
    returned,        \* whether the collector returned to main
    outcome,         \* how the run ended
    exitCode,        \* process exit status (-1 while running)
    sh_pc,           \* position of a shaping run ("idle" in a collection run)
    sh_features,     \* the features handed to plot_timeseries / export_csv
    sh_group_by,     \* whether --group-by is given
    sh_out           \* what the function produced

vars == <<prog, args, entry, pc, all_features, limit_per_page, offset,
          max_items, reqs, resps, received, sleeps, features, returned,
          outcome, exitCode, sh_pc, sh_features, sh_group_by, sh_out>>

\* The variables of a shaping run.
shaper == <<sh_pc, sh_features, sh_group_by, sh_out>>

\* The variables of a collection run.
collection == <<prog, args, entry, pc, all_features, limit_per_page, offset,
                max_items, reqs, resps, received, sleeps, features, returned,
                outcome, exitCode>>

Init ==
    /\ prog \in {"export", "fetch", "visualize"}
    /\ args \in CASE prog = "export" -> ExportArgs
                  [] prog = "fetch" -> FetchArgs
                  [] OTHER -> VisualizeArgs
    /\ entry = args
    /\ pc = "main"
    /\ all_features = <<>>
    /\ limit_per_page = 0
    /\ offset = 0
    /\ max_items = 0
    /\ reqs = <<>>
    /\ resps = <<>>
    /\ received = <<>>
    /\ sleeps = 0
    /\ features = <<>>
    /\ returned = FALSE
    /\ outcome = "running"
    /\ exitCode = -1
    /\ sh_pc = "idle"
    /\ sh_features = <<>>
    /\ sh_group_by = FALSE
    /\ sh_out = <<>>

\* ------------------------------------------------------- URL building
\* geomet_fetch.build_url: limit and offset are sent only when truthy.
build_url_fetch(a) ==
    [raise |-> PropertiesRaise(a.properties),
     params |-> [k \in {x \in {"limit", "offset"} :
                          (x = "limit" /\ a.limit # 0) \/ (x = "offset" /\ a.offset # 0)}
                 |-> IF k = "limit" THEN a.limit ELSE a.offset]]

\* geomet_export.build_url / geomet_visualize.build_url: both always sent.
build_url(limit, off, properties) ==
    [raise |-> PropertiesRaise(properties),
     params |-> [k \in {"limit", "offset"} |-> IF k = "limit" THEN limit ELSE off]]

\* ------------------------------------------------------------- server
\* What urlopen can do with one request.
Kinds == {"ok", "http_error", "url_error", "timeout"}
LinkSets == {{"self"}, {"self", "next"}}

\* A response: a kind, and for "ok" the JSON body's features and links.
Responses ==
    [kind: {"ok"}, features: Pages, links: LinkSets]
    \cup [kind: Kinds \ {"ok"}, features: {<<>>}, links: {{}}]

\* fetch_json: the parsed body, or the way the process ends.
fetch_json_mutant_swallow(r) ==
    [status |-> "return", data |-> [features |-> r.features, links |-> r.links]]
fetch_json(r) ==
    CASE r.kind = "ok" ->
            [status |-> "return", data |-> [features |-> r.features, links |-> r.links]]
      [] r.kind \in {"http_error", "url_error"} ->
            [status |-> "sys_exit", data |-> [features |-> <<>>, links |-> {}]]
      [] OTHER ->
            \* a timeout while reading the body is neither HTTPError nor URLError
            [status |-> "uncaught", data |-> [features |-> <<>>, links |-> {}]]

\* any(link.get("rel") == "next" for link in links)
has_next_mutant_any(links) == links # {}
has_next(links) == "next" \in links

\* `if not features: break`
empty_page_mutant_never(fs) == FALSE
empty_page(fs) == fs = <<>>

\* all_features.extend(features)
extend_mutant_twice(all, fs) == all \o fs \o fs
extend_mutant_prepend(all, fs) == fs \o all
extend(all, fs) == all \o fs

\* while len(all_features) < max_items
while_cond_mutant_le(n, cap) == n <= cap
while_cond(n, cap) == n < cap

\* offset += len(features)
next_offset_mutant_limit(off, fs, limit) == off + limit
next_offset(off, fs, limit) == off + Len(fs)

\* --------------------------------------------------- collector entries
\* geomet_export.fetch_all, up to the loop.
export_max_items(a) == IF a.all_pages THEN a.max_items ELSE Or(a.limit, ExportDefaultCap)

ExportFetchAllEnter ==
    /\ UNCHANGED shaper
    /\ pc = "main" /\ prog = "export"
    /\ all_features' = <<>>
    /\ limit_per_page' = Min(Or(args.limit, DefaultPageSize), PageSizeMax)
    /\ offset' = 0
    /\ max_items' = export_max_items(args)
    /\ pc' = "loop"
    /\ UNCHANGED <<prog, args, entry, reqs, resps, received, sleeps, features,
                   returned, outcome, exitCode>>

\* geomet_visualize.main (matplotlib imports) calls fetch_all: up to the loop.
VisualizeFetchAllEnter ==
    /\ UNCHANGED shaper
    /\ pc = "main" /\ prog = "visualize"
    /\ all_features' = <<>>
    /\ limit_per_page' = Min(Or(args.limit, DefaultPageSize), PageSizeMax)
    /\ offset' = 0
    /\ max_items' = Or(args.limit, DefaultPageSize)
    /\ pc' = "loop"
    /\ UNCHANGED <<prog, args, entry, reqs, resps, received, sleeps, features,
                   returned, outcome, exitCode>>

\* geomet_fetch.main with --all-pages: fetch_all_pages, up to the loop.
FetchAllPagesEnter ==
    /\ UNCHANGED shaper
    /\ pc = "main" /\ prog = "fetch" /\ args.all_pages
    /\ all_features' = <<>>
    /\ limit_per_page' = Min(Or(args.limit, DefaultPageSize), PageSizeMax)
    /\ offset' = Or(args.offset, 0)
    /\ max_items' = args.max_items
    /\ pc' = "loop"
    /\ UNCHANGED <<prog, args, entry, reqs, resps, received, sleeps, features,
                   returned, outcome, exitCode>>

\* The run dies on an uncaught exception (a traceback, exit status 1).
Uncaught(what) ==
    /\ pc' = "exit"
    /\ outcome' = what
    /\ exitCode' = ErrorExitStatus

\* The run ends through sys.exit(code) or by main returning.
Exit(what, code) ==
    /\ pc' = "exit"
    /\ outcome' = what
    /\ exitCode' = code

\* A request goes out: it is logged with the sleeps that preceded it.
Send(params) ==
    /\ Len(reqs) < MaxReq
    /\ reqs' = Append(reqs, [params |-> params, delay |-> sleeps])
    /\ sleeps' = 0

\* geomet_fetch.main without --all-pages: one build_url, one fetch_json.
FetchSingleRequest ==
    /\ UNCHANGED shaper
    /\ pc = "main" /\ prog = "fetch" /\ ~args.all_pages
    /\ LET url == build_url_fetch(args)
       IN  IF url.raise
           THEN Uncaught("value_error") /\ UNCHANGED <<reqs, sleeps>>
           ELSE Send(url.params) /\ pc' = "wait_single"
                /\ UNCHANGED <<outcome, exitCode>>
    /\ UNCHANGED <<prog, args, entry, all_features, limit_per_page, offset,
                   max_items, resps, received, features, returned>>

\* ------------------------------------------------------ the while loop
\* current_limit of geomet_export / geomet_visualize.
current_limit(lpp, cap, n) == Min(lpp, cap - n)

\* Loop head with len(all_features) < max_items: build the URL, call fetch_json.
Request ==
    /\ UNCHANGED shaper
    /\ pc = "loop"
    /\ while_cond(Len(all_features), max_items)
    /\ IF prog = "fetch"
       THEN \* args.limit = limit_per_page; args.offset = offset
            LET a == [args EXCEPT !.limit = limit_per_page, !.offset = offset]
                url == build_url_fetch(a)
            IN  /\ args' = a
                /\ IF url.raise
                   THEN Uncaught("value_error") /\ UNCHANGED <<reqs, sleeps>>
                   ELSE Send(url.params) /\ pc' = "wait"
                        /\ UNCHANGED <<outcome, exitCode>>
       ELSE LET url == build_url(current_limit(limit_per_page, max_items, Len(all_features)),
                                 offset, args.properties)
            IN  /\ args' = args
                /\ IF url.raise
                   THEN Uncaught("value_error") /\ UNCHANGED <<reqs, sleeps>>
                   ELSE Send(url.params) /\ pc' = "wait"
                        /\ UNCHANGED <<outcome, exitCode>>
    /\ UNCHANGED <<prog, entry, all_features, limit_per_page, offset, max_items,
                   resps, received, features, returned>>

\* Loop head with len(all_features) >= max_items: the loop ends.
LoopExit ==
    /\ UNCHANGED shaper
    /\ pc = "loop"
    /\ ~while_cond(Len(all_features), max_items)
    /\ pc' = "return"
    /\ UNCHANGED <<prog, args, entry, all_features, limit_per_page, offset,
                   max_items, reqs, resps, received, sleeps, features, returned,
                   outcome, exitCode>>

\* The sleep guard at the end of the loop body.
sleep_guard(n, cap, a) ==
    IF prog = "export" THEN a.all_pages /\ n < cap ELSE n < cap

\* The limit the last request asked for (what `offset += limit` would use).
LastLimit == IF "limit" \in DOMAIN reqs[Len(reqs)].params
             THEN reqs[Len(reqs)].params["limit"] ELSE 0

LogResponse(r) ==
    /\ resps' = Append(resps, [kind |-> r.kind, n |-> Len(r.features),
                               next |-> "next" \in r.links])
    /\ received' = received \o r.features

\* fetch_json returns or ends the process; the rest of the loop body.
Respond ==
    /\ UNCHANGED shaper
    /\ pc = "wait"
    /\ \E r \in Responses :
         LET got == fetch_json(r)
             fs == got.data.features
             grown == extend(all_features, fs)
         IN  /\ LogResponse(r)
             /\ CASE got.status = "sys_exit" ->
                       /\ Exit(r.kind, ErrorExitStatus)
                       /\ UNCHANGED <<all_features, offset>>
                  [] got.status = "uncaught" ->
                       /\ Uncaught("uncaught_" \o r.kind)
                       /\ UNCHANGED <<all_features, offset>>
                  [] OTHER ->
                       /\ UNCHANGED <<outcome, exitCode>>
                       /\ IF empty_page(fs)
                          THEN pc' = "return" /\ UNCHANGED <<all_features, offset>>
                          ELSE /\ all_features' = grown
                               /\ offset' = next_offset(offset, fs, LastLimit)
                               /\ pc' = IF ~has_next(got.data.links) THEN "return"
                                        ELSE IF sleep_guard(Len(grown), max_items, args)
                                             THEN "sleep" ELSE "loop"
    /\ UNCHANGED <<prog, args, entry, limit_per_page, max_items, reqs, sleeps,
                   features, returned>>

\* time.sleep(0.1)
Sleep ==
    /\ UNCHANGED shaper
    /\ pc = "sleep"
    /\ sleeps' = sleeps + 1
    /\ pc' = "loop"
    /\ UNCHANGED <<prog, args, entry, all_features, limit_per_page, offset,
                   max_items, reqs, resps, received, features, returned, outcome,
                   exitCode>>

\* return all_features[:max_items]
Return ==
    /\ UNCHANGED shaper
    /\ pc = "return"
    /\ features' = Slice(all_features, max_items)
    /\ returned' = TRUE
    /\ pc' = "post"
    /\ UNCHANGED <<prog, args, entry, all_features, limit_per_page, offset,
                   max_items, reqs, resps, received, sleeps, outcome, exitCode>>

\* geomet_fetch.main, single page: features = data.get("features", []).
FetchSingleRespond ==
    /\ UNCHANGED shaper
    /\ pc = "wait_single"
    /\ \E r \in Responses :
         LET got == fetch_json(r)
         IN  /\ LogResponse(r)
             /\ CASE got.status = "sys_exit" ->
                       Exit(r.kind, ErrorExitStatus) /\ UNCHANGED <<features, returned>>
                  [] got.status = "uncaught" ->
                       Uncaught("uncaught_" \o r.kind) /\ UNCHANGED <<features, returned>>
                  [] OTHER ->
                       /\ features' = got.data.features
                       /\ returned' = TRUE
                       /\ pc' = "post"
                       /\ UNCHANGED <<outcome, exitCode>>
    /\ UNCHANGED <<prog, args, entry, all_features, limit_per_page, offset,
                   max_items, reqs, sleeps>>

\* --------------------------------------------------- after collection
\* The field names a plot function requires.
missing_field(a) ==
    CASE a.plot_type = "timeseries" -> ~a.y_field
      [] a.plot_type \in {"bar", "scatter"} -> ~a.x_field \/ ~a.y_field
      [] OTHER -> FALSE

\* geomet_export.main: export_csv / export_geojson.
ExportMain ==
    /\ UNCHANGED shaper
    /\ pc = "post" /\ prog = "export"
    /\ IF features = <<>> THEN Exit("no_features", 0) ELSE Exit("ok", 0)
    /\ UNCHANGED <<prog, args, entry, all_features, limit_per_page, offset,
                   max_items, reqs, resps, received, sleeps, features, returned>>

\* geomet_fetch.main: print the features.
FetchMain ==
    /\ UNCHANGED shaper
    /\ pc = "post" /\ prog = "fetch"
    /\ Exit("ok", 0)
    /\ UNCHANGED <<prog, args, entry, all_features, limit_per_page, offset,
                   max_items, reqs, resps, received, sleeps, features, returned>>

\* geomet_visualize.main: no data, then the plot function's field check.
VisualizeMain ==
    /\ UNCHANGED shaper
    /\ pc = "post" /\ prog = "visualize"
    /\ IF features = <<>> THEN Exit("no_data", 1)
       ELSE IF missing_field(args) THEN Exit("config_error", ErrorExitStatus)
       ELSE pc' = "plot" /\ UNCHANGED <<outcome, exitCode>>
    /\ UNCHANGED <<prog, args, entry, all_features, limit_per_page, offset,
                   max_items, reqs, resps, received, sleeps, features, returned>>

\* The plot function after its field check: it saves the figure, or finds
\* no usable values in the features and exits.
Plot ==
    /\ UNCHANGED shaper
    /\ pc = "plot"
    /\ \/ Exit("ok", 0)
       \/ Exit("no_valid_data", 1)
    /\ UNCHANGED <<prog, args, entry, all_features, limit_per_page, offset,
                   max_items, reqs, resps, received, sleeps, features, returned>>

Next ==
    \/ ExportFetchAllEnter
    \/ VisualizeFetchAllEnter
    \/ FetchAllPagesEnter
    \/ FetchSingleRequest
    \/ Request
    \/ LoopExit
    \/ Respond
    \/ Sleep
    \/ Return
    \/ FetchSingleRespond
    \/ ExportMain
    \/ FetchMain
    \/ VisualizeMain
    \/ Plot

Spec == Init /\ [][Next]_vars

\* Runs without property filters and, for geomet_visualize, with the map
\* plot (which needs no field names): the arguments that play no part in
\* the pagination loops are fixed.
LoopInit ==
    /\ Init
    /\ args.properties = <<>>
    /\ prog = "visualize" => args.plot_type = "map" /\ ~args.x_field /\ ~args.y_field

\* The scripts are sequential programs and every request gets an answer:
\* a step that can be taken is taken.
FairSpec == LoopInit /\ [][Next]_vars /\ WF_vars(Next)

\* ------------------------------------------------ shaping: timeseries
\* Longest feature list handed to plot_timeseries or export_csv.
MaxRecs == 3

\* Raw property values of the x field: strings in one of the six formats
\* parse_date tries (standing for day `day`, second `sec` of that day),
\* another string, a number, or no value.
DateShapes == <<"isoZ", "iso", "space", "date", "slash", "compact">>
RawX(shape, day, sec) == [shape |-> shape, day |-> day, sec |-> sec]

\* Raw property values of the y field: a number, a boolean (an int to
\* Python: float(True) is 1.0), a string float() parses, another string,
\* or no value.
RawY(kind, v) == [kind |-> kind, v |-> v]

\* Features as plot_timeseries reads them: x, y and the group-by property
\* ("" when the feature has no such property).
SeriesFeatures ==
    { [x |-> RawX("date", 2, 0),    y |-> RawY("num", 1),    g |-> "s1"],
      [x |-> RawX("slash", 1, 0),   y |-> RawY("numstr", 2), g |-> "s2"],
      [x |-> RawX("isoZ", 1, 1),    y |-> RawY("num", 3),    g |-> "s1"],
      [x |-> RawX("compact", 3, 0), y |-> RawY("numstr", 1), g |-> ""],
      [x |-> RawX("text", 0, 0),    y |-> RawY("num", 1),    g |-> "s1"],
      [x |-> RawX("date", 1, 0),    y |-> RawY("text", 0),   g |-> "s2"],
      [x |-> RawX("number", 2, 0),  y |-> RawY("num", 2),    g |-> ""],
      [x |-> RawX("space", 2, 5),   y |-> RawY("bool", 1),   g |-> "s2"],
      [x |-> RawX("none", 0, 0),    y |-> RawY("none", 0),   g |-> "s1"] }

\* The sequences over S of length at most n.
RECURSIVE ListsUpTo(_, _)
ListsUpTo(S, n) ==
    IF n = 0 THEN {<<>>}
    ELSE LET L == ListsUpTo(S, n - 1)
         IN  L \cup {Append(l, e) : l \in {t \in L : Len(t) = n - 1}, e \in S}

\* An optional value: None is the empty set, a value v is {v}.
None == {}
Some(v) == {v}
Value(o) == CHOOSE v \in o : TRUE

\* parse_date: the first format that matches a string gives the datetime
\* (an instant: seconds since day 0); the date-only formats give midnight.
parse_date(value) ==
    IF \E k \in 1..Len(DateShapes) : DateShapes[k] = value.shape
    THEN IF value.shape \in {"date", "slash", "compact"}
         THEN Some(value.day * (24 * 3600))
         ELSE Some(value.day * (24 * 3600) + value.sec)
    ELSE None

\* to_numeric: float(value), None when value is None or float() raises.
to_numeric(value) ==
    IF value.kind \in {"num", "bool", "numstr"} THEN Some(value.v) ELSE None

\* (d1, v1) < (d2, v2) on tuples.
PairLess(p, q) == p[1] < q[1] \/ (p[1] = q[1] /\ p[2] < q[2])

\* sorted(zip(dates, values))
RECURSIVE sorted_pairs(_)
sorted_pairs_mutant_unsorted(ps) == ps
sorted_pairs(ps) ==
    IF ps = <<>> THEN <<>>
    ELSE LET rest == sorted_pairs(Tail(ps))
             p == Head(ps)
             k == Cardinality({i \in 1..Len(rest) : PairLess(rest[i], p)})
         IN  SubSeq(rest, 1, k) \o <<p>> \o SubSeq(rest, k + 1, Len(rest))

\* `if d is not None and v is not None`
valid_pair(d, v) == d # None /\ v # None

\* The (date, value) pairs of the features that have both, in list order.
RECURSIVE pairs_of(_)
pairs_of(fs) ==
    IF fs = <<>> THEN <<>>
    ELSE LET d == parse_date(Head(fs).x)
             v == to_numeric(Head(fs).y)
         IN  (IF valid_pair(d, v) THEN <<<<Value(d), Value(v)>>>> ELSE <<>>) \o pairs_of(Tail(fs))

\* str(props.get(args.group_by, "unknown"))
group_of(f) == IF f.g = "" THEN "unknown" ELSE f.g

\* The features of one group, in list order.
RECURSIVE in_group(_, _)
in_group(fs, label) ==
    IF fs = <<>> THEN <<>>
    ELSE (IF group_of(Head(fs)) = label THEN <<Head(fs)>> ELSE <<>>)
         \o in_group(Tail(fs), label)

\* plot_timeseries from the pairing loop on: the series it plots, by label
\* (the single series of an ungrouped plot has the label "all").
plot_timeseries(fs, group_by) ==
    IF pairs_of(fs) = <<>>
    THEN [status |-> "no_valid_data", series |-> <<>>]
    ELSE IF group_by
    THEN LET labels == {group_of(fs[i]) : i \in {j \in 1..Len(fs) :
                            valid_pair(parse_date(fs[j].x), to_numeric(fs[j].y))}}
         IN  [status |-> "ok",
              series |-> [l \in labels |-> sorted_pairs(pairs_of(in_group(fs, l)))]]
    ELSE [status |-> "ok", series |-> [l \in {"all"} |-> sorted_pairs(pairs_of(fs))]]

\* ------------------------------------------------ shaping: CSV export
\* Property names, in the order Python's sorted() gives them.
KeyOrder == <<"DATE", "STN", "TEMP">>

\* A geometry object: its "type" and its "coordinates" (ordinates are
\* written as the text the CSV writer puts out for them).
Geometry(type, coordinates) == [type |-> type, coordinates |-> coordinates]

\* Features as export_csv reads them: "id" (None when the feature has
\* none), "geometry" (None when missing or null) and "properties", a
\* mapping from some of the names to a text value or to None (JSON null).
CsvFeatures ==
    { [id |-> Some("f1"), geometry |-> Some(Geometry("Point", <<"x1", "y1">>)),
       properties |-> [k \in {"TEMP"} |-> Some("21")]],
      [id |-> Some("f2"), geometry |-> Some(Geometry("Point", <<"x2", "y2", "z2">>)),
       properties |-> [k \in {"TEMP", "STN"} |-> IF k = "TEMP" THEN Some("22") ELSE Some("A")]],
      [id |-> None, geometry |-> None,
       properties |-> [k \in {"DATE"} |-> Some("d3")]],
      [id |-> Some("f4"), geometry |-> Some(Geometry("Point", <<"x4">>)),
       properties |-> [k \in {"TEMP"} |-> None]],
      [id |-> Some("f5"), geometry |-> Some(Geometry("LineString", <<"x5", "y5">>)),
       properties |-> [k \in {} |-> None]],
      [id |-> Some("f6"), geometry |-> Some(Geometry("Point", <<>>)),
       properties |-> [k \in {"STN", "DATE"} |-> IF k = "STN" THEN Some("B") ELSE None]] }

\* extract_geometry_coords: the first two ordinates of a Point that has
\* at least two, otherwise (None, None).
extract_geometry_coords_mutant_exact(feature) ==
    IF feature.geometry = None THEN <<None, None>>
    ELSE LET geom == Value(feature.geometry)
         IN  IF geom.type = "Point" /\ Len(geom.coordinates) = 2
             THEN <<Some(geom.coordinates[1]), Some(geom.coordinates[2])>>
             ELSE <<None, None>>
extract_geometry_coords(feature) ==
    IF feature.geometry = None THEN <<None, None>>
    ELSE LET geom == Value(feature.geometry)
         IN  IF geom.type = "Point" /\ Len(geom.coordinates) >= 2
             THEN <<Some(geom.coordinates[1]), Some(geom.coordinates[2])>>
             ELSE <<None, None>>

\* `x if x is not None else ""`
blank_if_none(o) == IF o = None THEN "" ELSE Value(o)

\* sorted(all_keys)
sorted_keys(keys) == SelectSeq(KeyOrder, LAMBDA k : k \in keys)

\* export_csv: the header and one row per feature; nothing is written for
\* an empty list.
export_csv(fs) ==
    IF fs = <<>> THEN [status |-> "no_features", header |-> <<>>, rows |-> <<>>]
    ELSE LET all_keys == UNION {DOMAIN fs[i].properties : i \in 1..Len(fs)}
             columns == <<"id", "longitude", "latitude">> \o sorted_keys(all_keys)
             row(feature) ==
                 LET props == feature.properties
                     lonlat == extract_geometry_coords(feature)
                     cell(key) == IF key \in DOMAIN props
                                  THEN blank_if_none(props[key]) ELSE ""
                     keys == sorted_keys(all_keys)
                 IN  <<blank_if_none(feature.id), blank_if_none(lonlat[1]),
                       blank_if_none(lonlat[2])>>
                     \o [j \in 1..Len(keys) |-> cell(keys[j])]
         IN  [status |-> "ok", header |-> columns,
              rows |-> [i \in 1..Len(fs) |-> row(fs[i])]]

\* A shaping run starts with the function's arguments drawn: a feature
\* list for plot_timeseries, or one for export_csv.
ShaperInit ==
    /\ all_features = <<>> /\ limit_per_page = 0 /\ offset = 0 /\ max_items = 0
    /\ reqs = <<>> /\ resps = <<>> /\ received = <<>> /\ sleeps = 0
    /\ features = <<>> /\ returned = FALSE
    /\ outcome = "running" /\ exitCode = -1
    /\ sh_out = <<>>
    /\ \/ /\ prog = "visualize"
          /\ args \in {a \in VisualizeArgs : a.limit = 0 /\ a.properties = <<>>
                          /\ a.plot_type = "timeseries" /\ a.x_field /\ a.y_field}
          /\ pc = "plot"
          /\ sh_pc = "timeseries"
          /\ sh_features \in ListsUpTo(SeriesFeatures, MaxRecs) \ {<<>>}
          /\ sh_group_by \in BOOLEAN
       \/ /\ prog = "export"
          /\ args \in {a \in ExportArgs : a.limit = 0 /\ a.properties = <<>>
                          /\ ~a.all_pages /\ a.max_items = 0}
          /\ pc = "post"
          /\ sh_pc = "csv"
          /\ sh_features \in ListsUpTo(CsvFeatures, MaxRecs)
          /\ sh_group_by = FALSE
    /\ entry = args

PlotTimeseries ==
    /\ sh_pc = "timeseries"
    /\ sh_out' = plot_timeseries(sh_features, sh_group_by)
    /\ sh_pc' = "done"
    /\ UNCHANGED <<sh_features, sh_group_by>>
    /\ UNCHANGED collection

ExportCsv ==
    /\ sh_pc = "csv"
    /\ sh_out' = export_csv(sh_features)
    /\ sh_pc' = "done"
    /\ UNCHANGED <<sh_features, sh_group_by>>
    /\ UNCHANGED collection

ShaperNext ==
    \/ PlotTimeseries
    \/ ExportCsv

SpecShaper == ShaperInit /\ [][ShaperNext]_vars

\* ------------------------------------------------------------- claims
\* The run goes through a pagination loop (fetch_all / fetch_all_pages).
Collector == prog \in {"export", "visualize"} \/ (prog = "fetch" /\ entry.all_pages)

\* The script has an --all-pages flag and it is not set.
SinglePageMode == prog \in {"export", "fetch"} /\ ~entry.all_pages

\* The limit and offset of the i-th request as the server reads them
\* (an omitted offset is 0).
SentLimit(i) == reqs[i].params["limit"]
SentOffset(i) ==
    IF "offset" \in DOMAIN reqs[i].params THEN reqs[i].params["offset"] ELSE 0

\* Records delivered by the responses before the i-th request.
RECURSIVE CollectedBefore(_)
CollectedBefore(i) == IF i <= 1 THEN 0 ELSE CollectedBefore(i - 1) + resps[i - 1].n

\* C1: with a cap c >= 1, what a collector returns has at most c records,
\* and exactly c only if the server delivered at least c records in all.
C1_CapBound ==
    (returned /\ Collector /\ max_items >= 1) =>
        /\ Len(features) <= max_items
        /\ (Len(features) = max_items => Len(received) >= max_items)

\* A collector returned exactly cap records after the server delivered more
\* than the cap (a page longer than asked for).
C1_Witness ==
    /\ returned /\ Collector /\ max_items >= 1
    /\ Len(features) = max_items
    /\ Len(received) > max_items

\* C2: in single-page mode (page size hint >= 0) a run never issues more
\* than one page request, and a run whose fetch returned issued exactly one.
C2_SinglePageOneRequest ==
    (SinglePageMode /\ entry.limit >= 0) =>
        /\ Len(reqs) <= 1
        /\ (returned => Len(reqs) = 1)

\* C3: after a response with an empty features array no further request is
\* issued and what was collected so far is returned, whatever next link the
\* previous page carried; pages of 2, 2 and 0 records (the first two with
\* next) under the scenario cap in all-pages mode give 4 records from 3
\* requests.
C3_EmptyPageStops ==
    /\ \A i \in 1..Len(resps) :
         (resps[i].kind = "ok" /\ resps[i].n = 0) =>
             /\ Len(reqs) = i
             /\ pc \notin {"loop", "sleep", "wait"}
             /\ (returned => features = received)
    /\ ( /\ prog \in {"export", "fetch"} /\ entry.all_pages
         /\ entry.max_items = ScenarioCap
         /\ returned
         /\ Len(resps) = 3
         /\ \A i \in 1..3 : resps[i].kind = "ok"
         /\ resps[1].n = 2 /\ resps[1].next
         /\ resps[2].n = 2 /\ resps[2].next
         /\ resps[3].n = 0 )
       => (Len(features) = 4 /\ Len(reqs) = 3)

\* The three-page scenario ran to its return, the empty page carrying a
\* next link of its own.
C3_Witness ==
    /\ prog \in {"export", "fetch"} /\ entry.all_pages
    /\ entry.max_items = ScenarioCap
    /\ returned
    /\ Len(resps) = 3 /\ Len(reqs) = 3
    /\ resps[1].n = 2 /\ resps[1].next
    /\ resps[2].n = 2 /\ resps[2].next
    /\ resps[3].kind = "ok" /\ resps[3].n = 0 /\ resps[3].next
    /\ Len(features) = 4

\* C4: once the response to the N-th request carries no next link, the run
\* issues exactly N requests, whatever is left of the cap.
C4_NoNextStops ==
    \A i \in 1..Len(resps) :
        (resps[i].kind = "ok" /\ ~resps[i].next) =>
            (Len(reqs) = i /\ pc \notin {"loop", "sleep", "wait"})

\* A second page with records and no next link ended a collection with the
\* cap unfilled.
C4_Witness ==
    /\ Collector /\ returned
    /\ Len(resps) = 2 /\ Len(reqs) = 2
    /\ resps[2].kind = "ok" /\ resps[2].n > 0 /\ ~resps[2].next
    /\ Len(all_features) < max_items

\* C5: the first request carries the caller's start offset (0 when the
\* script has none) and each later request carries the previous request's
\* offset plus the number of records the previous response returned.
C5_OffsetAdvance ==
    \A i \in 1..Len(reqs) :
        SentOffset(i) = IF i = 1 THEN entry.offset
                        ELSE SentOffset(i - 1) + resps[i - 1].n

\* A third request follows two pages, the first shorter than the limit it
\* was asked with, from a non-zero start offset.
C5_Witness ==
    /\ Len(reqs) = 3
    /\ entry.offset # 0
    /\ resps[1].n < SentLimit(1)
    /\ resps[2].n # resps[1].n

\* C6: every request of a collector (page size hint >= 0) asks for
\* min(pageSizeHint, cap - len(collected)) records, and that value is > 0.
C6_LimitIsRemaining ==
    (Collector /\ entry.limit >= 0) =>
        \A i \in 1..Len(reqs) :
            /\ "limit" \in DOMAIN reqs[i].params
            /\ SentLimit(i) = Min(limit_per_page, max_items - CollectedBefore(i))
            /\ SentLimit(i) > 0

\* C7: every page request, of any fetch path, carries a limit of at most 500.
C7_LimitClamped ==
    \A i \in 1..Len(reqs) :
        "limit" \in DOMAIN reqs[i].params => SentLimit(i) <= PageSizeMax

\* C8: exactly one sleep precedes every page request after the first.
C8_DelayBetweenRequests ==
    /\ sleeps <= 1
    /\ \A i \in 1..Len(reqs) : reqs[i].delay = IF i = 1 THEN 0 ELSE 1

\* C9: a run that ends on a configuration error (a filter token without "=",
\* a missing field name) has issued no request.
C9_ConfigErrorBeforeNetwork ==
    outcome \in {"value_error", "config_error"} => Len(reqs) = 0

\* C10: a failed page request is the last one; the process ends with a
\* non-zero status and the collector never returns to its caller.
C10_FailureIsFatal ==
    \A i \in 1..Len(resps) :
        resps[i].kind # "ok" =>
            /\ Len(reqs) = i
            /\ pc = "exit" /\ exitCode # 0
            /\ ~returned

\* The second request of a collection failed after a first page of records.
C10_Witness ==
    /\ Collector
    /\ Len(resps) = 2 /\ resps[2].kind # "ok"
    /\ all_features # <<>>
    /\ pc = "exit"

\* C11: when a collector has returned, every field of the caller's
\* argument namespace (page size hint, start offset, filters) has the value
\* it had at entry.
C11_ArgsNotMutated ==
    (Collector /\ returned) => args = entry

\* How many times record r occurs in sequence s.
Count(s, r) == Cardinality({i \in 1..Len(s) : s[i] = r})

\* C12 (as claimed): no record occurs twice in what a collector returns.
C12_NoDuplicates ==
    (Collector /\ returned) =>
        \A i, j \in 1..Len(features) : i # j => features[i] # features[j]

\* C12 (amended): a collector returns no record more often than the server
\* delivered it, and exactly as often when nothing was cut off by the cap:
\* a record delivered on two pages is returned twice.
C12_NoAddedDuplicates ==
    (Collector /\ returned) =>
        \A r \in Records :
            /\ Count(features, r) <= Count(received, r)
            /\ (Len(received) <= max_items => Count(features, r) = Count(received, r))

\* The same record came on two pages of one record each and is returned twice.
C12_Witness ==
    /\ Collector /\ returned
    /\ Len(resps) = 2 /\ resps[1].n = 1 /\ resps[2].n = 1
    /\ Len(features) = 2 /\ features[1] = features[2]

\* C13: what a collector returns is the concatenation of the received
\* pages in request order, cut to the cap (nothing added, nothing moved),
\* and the collected list never gets shorter from one step to the next.
C13_OrderPreserving ==
    /\ [](  (Collector /\ returned) =>
              /\ Len(features) = Min(Len(received), IF max_items > 0 THEN max_items ELSE 0)
              /\ \A i \in 1..Len(features) : features[i] = received[i] )
    /\ [][Len(all_features') >= Len(all_features)]_vars

\* Three pages were received and the cap cut the concatenation short.
C13_Witness ==
    /\ Collector /\ returned
    /\ Len(resps) = 3
    /\ Len(received) > max_items
    /\ Len(features) = max_items
    /\ \E i, j \in 1..Len(features) : features[i] # features[j]

C15_EmptyIsNotAnError ==
    outcome \in {"no_data", "no_features", "no_valid_data"} =>
        exitCode # ErrorExitStatus

\* A feature plot_timeseries must drop: its x is no string in one of the
\* date formats, or its y is neither a number (Python counts a boolean as
\* one) nor a numeric string.
Dropped(f) ==
    \/ f.x.shape \notin {"isoZ", "iso", "space", "date", "slash", "compact"}
    \/ f.y.kind \notin {"num", "bool", "numstr"}

\* The points of all the series together.
RECURSIVE TotalPoints(_, _)
TotalPoints(series, labels) ==
    IF labels = {} THEN 0
    ELSE LET l == CHOOSE x \in labels : TRUE
         IN  Len(series[l]) + TotalPoints(series, labels \ {l})

HasLonLat(f) ==
    /\ f.geometry # None
    /\ Value(f.geometry).type = "Point"
    /\ Len(Value(f.geometry).coordinates) >= 2

\* The place of a property name in sorted order.
KeyRank(k) == CHOOSE n \in 1..Len(KeyOrder) : KeyOrder[n] = k

\* C17: export_csv of a non-empty list writes one row per feature, in the
\* list's order, under the columns id, longitude, latitude and then every
\* distinct property name of the whole list in sorted order; longitude
\* and latitude are blank when the geometry is absent or is no Point with
\* at least two ordinates (and are its first two ordinates otherwise); a
\* property the feature lacks or holds as null is blank.
C17_CsvRowsAndColumns ==
    sh_pc = "done" /\ prog = "export" /\ sh_features # <<>> =>
        LET header == sh_out.header
            rows == sh_out.rows
            all_keys == UNION {DOMAIN sh_features[i].properties : i \in 1..Len(sh_features)}
        IN  /\ sh_out.status = "ok"
            /\ Len(rows) = Len(sh_features)
            /\ Len(header) = 3 + Cardinality(all_keys)
            /\ SubSeq(header, 1, 3) = <<"id", "longitude", "latitude">>
            /\ {header[j] : j \in 4..Len(header)} = all_keys
            /\ \A i, j \in 4..Len(header) :
                  i < j => KeyRank(header[i]) < KeyRank(header[j])
            /\ \A i \in 1..Len(rows) :
                  LET f == sh_features[i]
                  IN  /\ Len(rows[i]) = Len(header)
                      /\ rows[i][1] = (IF f.id = None THEN "" ELSE Value(f.id))
                      /\ ~HasLonLat(f) => rows[i][2] = "" /\ rows[i][3] = ""
                      /\ HasLonLat(f) =>
                            /\ rows[i][2] = Value(f.geometry).coordinates[1]
                            /\ rows[i][3] = Value(f.geometry).coordinates[2]
                      /\ \A j \in 4..Len(header) :
                            LET key == header[j]
                            IN  IF key \in DOMAIN f.properties /\ f.properties[key] # None
                                THEN rows[i][j] = Value(f.properties[key])
                                ELSE rows[i][j] = ""

\* Three features exported: two with a Point geometry and a TEMP value,
\* then one without geometry; three rows, the third without longitude and
\* latitude.
C17_Witness ==
    /\ sh_pc = "done" /\ prog = "export"
    /\ Len(sh_features) = 3
    /\ \A i \in 1..2 :
          /\ HasLonLat(sh_features[i])
          /\ "TEMP" \in DOMAIN sh_features[i].properties
          /\ sh_features[i].properties["TEMP"] # None
    /\ sh_features[1] # sh_features[2]
    /\ sh_features[3].geometry = None
    /\ Len(sh_out.rows) = 3
    /\ sh_out.rows[3][2] = "" /\ sh_out.rows[3][3] = ""
    /\ sh_out.rows[1][2] # "" /\ sh_out.rows[2][3] # ""

\* max(a, b)
Max(a, b) == IF a >= b THEN a ELSE b

\* The run is inside a pagination loop.
InLoop == Collector /\ pc \in {"loop", "wait", "sleep"}

\* C18: a pagination loop sends at most max(cap, 0) requests, an answer
\* after which the loop goes on has added at least one record, and the
\* loop ends whatever the server answers (caps up to MaxReq, which the
\* request log of the model holds in full).
C18_LoopTerminates ==
    /\ [](Collector /\ pc # "main" => Len(reqs) <= Max(max_items, 0))
    /\ [][InLoop /\ pc = "wait" /\ pc' \in {"loop", "sleep"}
             => Len(all_features') >= Len(all_features) + 1]_vars
    /\ [](InLoop /\ max_items <= MaxReq => <>(~InLoop))

\* A server that always answers a full page with a next link: the loop
\* ended at the cap after as many requests as the cap allows.
C18_Witness ==
    /\ Collector /\ returned
    /\ max_items >= 2
    /\ Len(reqs) = max_items
    /\ \A i \in 1..Len(resps) :
          resps[i].kind = "ok" /\ resps[i].n >= 1 /\ resps[i].next

====
